---- MODULE Spec2Model ----
(***************************************************************************)
(* Model of the resource-monitor main process (Electron main: disk-stats   *)
(* cache, cleanup, scan and delete IPC handlers), of the sync daemon's     *)
(* command-queue poll and executor, and of the mobile client's sender.     *)
(*                                                                         *)
(* JavaScript runs every handler to completion between two awaits, so each *)
(* action below is one such segment: from the call (or from the resolution *)
(* of the awaited child process) up to the next await or the return.       *)
(***************************************************************************)
EXTENDS Integers, Sequences, FiniteSets, TLC

\* ------------------------------------------------------------------
\* Bounds of the model
\* ------------------------------------------------------------------
StartTime == 60000        \* Date.now() when the first handler runs (ms)
TickMs == 15000           \* the clock advances in steps of this many ms
MaxTicks == 2             \* steps of the clock per behaviour
MaxInflightReads == 1     \* getDiskStats calls suspended at the same time
MaxInFlight == 1          \* IPC handler calls suspended at the same time
MaxBatch == 2             \* longest list of arbitrary path values given to a batch operation
MaxValidBatch == 5        \* longest list of deletable paths given to delete-old-nodemodules
MaxFindLines == 2         \* most lines in the output of one find
ScanStartDays == 16       \* Date.now() when a scan runs, in days
MaxCommands == 2          \* commands the mobile client sends per behaviour
MaxMantissa == 6          \* byte counts given to the helpers of utils.js are k * 2^e, k up to this
MaxCalls == 2             \* calls in one chain of helper calls
MaxScans == 2             \* invocations of scan-nodemodules that overlap
MaxExecuted == 3          \* the daemon polls while it has executed fewer commands than this

\* ------------------------------------------------------------------
\* Strings are sequences of characters
\* ------------------------------------------------------------------
Slash == <<"/">>
DotDot == <<".", ".">>
NodeModules == <<"n","o","d","e","_","m","o","d","u","l","e","s">>

\* String.prototype.includes
Includes(s, sub) ==
    \E i \in 0..(Len(s) - Len(sub)) : SubSeq(s, i + 1, i + Len(sub)) = sub

\* JavaScript values that can arrive as a path argument over IPC
Str(s) == [t |-> "string", s |-> s]
Null == [t |-> "null", s |-> <<>>]
Num42 == [t |-> "number", s |-> <<>>]

PathPool ==
    << Str(Slash \o <<"a">> \o Slash \o NodeModules),                  \* /a/node_modules
       Str(Slash \o <<"e","t","c">> \o Slash \o <<"p","w">>),          \* /etc/pw
       Str(Slash \o <<"a">> \o Slash \o NodeModules \o Slash \o DotDot \o Slash \o <<"e","t","c">>),
                                                                       \* /a/node_modules/../etc
       Str(Slash \o <<"m","y","_">> \o NodeModules \o <<"_","b">>),    \* /my_node_modules_b
       Str(<<>>),                                                      \* ""
       Null,                                                           \* null / undefined
       Num42 >>                                                        \* 42

PathIds == 1..Len(PathPool)
PathOf(p) == PathPool[p]

\* !v  is false
Truthy(v) == \/ v.t = "number"
             \/ v.t = "string" /\ v.s # <<>>

\* v.includes exists (strings); calling it on a number throws a TypeError
HasIncludes(v) == v.t = "string"

\* ------------------------------------------------------------------
\* State
\* ------------------------------------------------------------------
VARIABLES
    now,          \* Date.now() of the main process
    cache,        \* the disk-stats cache: [disk, diskTimestamp]
    reads,        \* getDiskStats calls suspended at  await si.fsSize(): the  now  of each
    del,          \* the delete-nodemodule handler
    batch,        \* the delete-old-nodemodules handler
    cc,           \* the cleanup-cache handler
    ca,           \* the cleanup-all handler
    ret,          \* what the last step returned (or threw) to its caller, if it ended a call
    dirty,        \* a successful deletion has returned and no getDiskStats call started since
    daemon,       \* the daemon's executeCommand
    scan,         \* the scan-nodemodules handler
    queue,        \* the command-queue document commands-<deviceId>.json
    poll,         \* the daemon's checkCommandQueue
    sender,       \* the mobile client's sendCleanupCommand
    util,         \* a call chain of the helpers of utils.js: its input and its value
    scans,        \* overlapping invocations of scan-nodemodules and the filesystem they probe
    executed      \* the timestamps of the commands executeCommand has completed, in order

vars == << now, cache, reads, del, batch, cc, ca,
           ret, dirty, daemon, scan, queue, poll, sender, util, scans, executed >>

daemonVars == << daemon >>

scanVars == << scan >>

queueVars == << queue, poll, sender, executed >>

utilVars == << util >>

overlapVars == << scans >>

\* handler calls of the main process that are suspended at an await
InFlight ==
    Cardinality({ h \in { del, batch, cc, ca } : h.pc # "idle" })

CanSuspend == InFlight < MaxInFlight

\* ------------------------------------------------------------------
\* The disk-stats cache and getDiskStats
\* ------------------------------------------------------------------
DISK_TTL == 30000

\* cache.disk = null
NoSnapshot == [total |-> -1, available |-> -1, usedPercent |-> -1]

\* { total: '0', available: '0', usedPercent: '0' }
ZeroSnapshot == [total |-> 0, available |-> 0, usedPercent |-> 0]

\* What the volume reports, in units of half a GiB
DiskSize == 200
FreePool == { 19, 31 }

DataMount == "/System/Volumes/Data"
RootMount == "/"

\* One entry of the list si.fsSize() resolves to:  use  is in half percents
FsEntry(mount, free) ==
    [mount |-> mount, size |-> DiskSize, available |-> free,
     use |-> (200 * (DiskSize - free)) \div DiskSize]

\* The ways  await si.fsSize()  can end
FsSizeOutcomes ==
    { [kind |-> "rejected", disks |-> <<>>],
      [kind |-> "resolved", disks |-> <<>>] }
    \cup { [kind |-> "resolved", disks |-> << FsEntry(DataMount, f) >>] : f \in FreePool }
    \cup { [kind |-> "resolved", disks |-> << FsEntry(RootMount, 0), FsEntry(DataMount, f) >>] :
             f \in FreePool }
    \cup { [kind |-> "resolved", disks |-> << FsEntry(RootMount, f) >>] : f \in FreePool }

\* disks.find(d => d.mount === '/System/Volumes/Data') || disks[0]
HasMainDisk(disks) == disks # <<>>
MainDisk(disks) ==
    IF \E i \in 1..Len(disks) : disks[i].mount = DataMount
    THEN disks[CHOOSE i \in 1..Len(disks) :
                  /\ disks[i].mount = DataMount
                  /\ \A j \in 1..(i - 1) : disks[j].mount # DataMount]
    ELSE disks[1]

\* (halves / 2).toFixed(0): round to nearest, half away from zero
ToFixed0Halves(h) == (h + 1) \div 2

DiskData(d) ==
    [total |-> ToFixed0Halves(d.size),
     available |-> ToFixed0Halves(d.available),
     usedPercent |-> ToFixed0Halves(d.use)]

\* cache.disk && (now - cache.diskTimestamp) < cache.DISK_TTL
IsFreshAlways(c, t) == c.disk # NoSnapshot
IsFreshNever(c, t) == FALSE
IsFresh(c, t) == c.disk # NoSnapshot /\ (t - c.diskTimestamp) < DISK_TTL

\* cache.disk || { total: '0', ... }
CachedOrZero(c) == IF c.disk # NoSnapshot THEN c.disk ELSE ZeroSnapshot

\* cache.diskTimestamp = 0
InvalidatedDropsSnapshot(c) == [disk |-> NoSnapshot, diskTimestamp |-> 0]
Invalidated(c) == [c EXCEPT !.diskTimestamp = 0]

\* One probe in the log of a call: the position in the input list, the path and
\* whether the child process ended with success
Probe(at, p, ok) == [at |-> at, p |-> p, ok |-> ok]

\* The single probe of a call that awaits one child process, with the message of
\* the error the child process ended with
ProbeOf(p, o) == [at |-> 1, p |-> p, ok |-> o.ok, message |-> o.message]

\* The value a call hands back, with the probes the call issued
Returned(op, arg, val, probes) ==
    [op |-> op, arg |-> arg, val |-> val, probes |-> probes]

\* the step returned nothing
NoReturn == [op |-> "none"]

\* getDiskStats, cache fresh: return cache.disk
GetDiskStatsCached ==
    /\ IsFresh(cache, now)
    /\ ret' = Returned("getDiskStats", "cached", cache.disk, <<>>)
    /\ dirty' = FALSE
    /\ UNCHANGED << now, cache, reads, del, batch, cc, ca,
                    daemonVars, scanVars, utilVars, overlapVars, queueVars >>

\* getDiskStats, cache stale: suspend at the probe
GetDiskStatsProbe ==
    /\ Len(reads) < MaxInflightReads
    /\ ~IsFresh(cache, now)
    /\ reads' = Append(reads, now)
    /\ dirty' = FALSE
    /\ ret' = NoReturn
    /\ UNCHANGED << now, cache, del, batch, cc, ca,
                    daemonVars, scanVars, utilVars, overlapVars, queueVars >>

\* the probe of a suspended getDiskStats ends
GetDiskStatsResume ==
    \E r \in 1..Len(reads) : \E o \in FsSizeOutcomes :
        /\ reads' = SubSeq(reads, 1, r - 1) \o SubSeq(reads, r + 1, Len(reads))
        /\ IF o.kind = "rejected"
           THEN /\ ret' = Returned("getDiskStats", "rejected", CachedOrZero(cache), << Probe(0, 0, FALSE) >>)
                /\ UNCHANGED cache
           ELSE IF ~HasMainDisk(o.disks)
           THEN /\ ret' = Returned("getDiskStats", "nodisk", ZeroSnapshot, << Probe(0, 0, TRUE) >>)
                /\ UNCHANGED cache
           ELSE /\ cache' = [disk |-> DiskData(MainDisk(o.disks)), diskTimestamp |-> reads[r]]
                /\ ret' = Returned("getDiskStats", "stored", DiskData(MainDisk(o.disks)),
                                << Probe(0, 0, TRUE) >>)
        /\ UNCHANGED << now, del, batch, cc, ca,
                        dirty, daemonVars, scanVars, utilVars, overlapVars, queueVars >>

\* ------------------------------------------------------------------
\* Child processes: rm -rf
\* ------------------------------------------------------------------
\* The ways  await execAsync(`rm -rf ...`, { timeout })  can end
RmOutcomes ==
    { [ok |-> TRUE, message |-> "none"],
      [ok |-> FALSE, message |-> "Command failed"],
      [ok |-> FALSE, message |-> "timed out"] }

\* ------------------------------------------------------------------
\* ipcMain.handle('delete-nodemodule')
\* ------------------------------------------------------------------
\* !nmPath || !nmPath.includes('node_modules')   (for a value that has .includes)
DeleteOneRejectsFalsy(v) == ~Truthy(v)
DeleteOneRejects(v) == ~Truthy(v) \/ ~Includes(v.s, NodeModules)

\* evaluating the condition throws: a truthy value without .includes
PathCheckThrows(v) == Truthy(v) /\ ~HasIncludes(v)

\* the cache after the rm of delete-nodemodule ended with outcome o
DeleteOneCacheAlways(c, o) == Invalidated(c)
DeleteOneCache(c, o) == IF o.ok THEN Invalidated(c) ELSE c

\* the value delete-nodemodule returns after its rm ended with outcome o
DeleteOneResult(o) ==
    IF o.ok THEN [success |-> TRUE] ELSE [success |-> FALSE, error |-> o.message]

IdleDel == [pc |-> "idle", path |-> 0]

\* the call: the guard, then either a return, an exception or the await of rm
DeleteNodemoduleCall(callerPaths) ==
    \E p \in callerPaths :
        /\ del.pc = "idle"
        /\ CanSuspend
        /\ IF PathCheckThrows(PathOf(p))
           THEN /\ ret' = Returned("delete-nodemodule", p, [threw |-> "TypeError"], <<>>)
                /\ UNCHANGED del
           ELSE IF DeleteOneRejects(PathOf(p))
           THEN /\ ret' = Returned("delete-nodemodule", p,
                                   [success |-> FALSE, error |-> "Invalid path"], <<>>)
                /\ UNCHANGED del
           ELSE /\ del' = [pc |-> "rm", path |-> p]
                /\ ret' = NoReturn
        /\ UNCHANGED << now, cache, reads, batch, cc, ca,
                        dirty, daemonVars, scanVars, utilVars, overlapVars, queueVars >>

\* the rm ends
DeleteNodemoduleResume ==
    \E o \in RmOutcomes :
        /\ del.pc = "rm"
        /\ del' = IdleDel
        /\ cache' = DeleteOneCache(cache, o)
        /\ dirty' = (dirty \/ o.ok)
        /\ ret' = Returned("delete-nodemodule", del.path, DeleteOneResult(o),
                           << ProbeOf(del.path, o) >>)
        /\ UNCHANGED << now, reads, batch, cc, ca,
                        daemonVars, scanVars, utilVars, overlapVars, queueVars >>

\* ------------------------------------------------------------------
\* ipcMain.handle('delete-old-nodemodules')
\* ------------------------------------------------------------------
\* Arguments of a call: an array of path values, or something that is no array
RECURSIVE SeqsUpTo(_, _)
SeqsUpTo(S, n) ==
    IF n = 0 THEN { <<>> }
    ELSE LET shorter == SeqsUpTo(S, n - 1)
         IN shorter \cup { Append(q, x) : q \in { r \in shorter : Len(r) = n - 1 }, x \in S }

\* every list of at most MaxBatch values out of: a node_modules folder, another
\* path, null and a number
ListPathIds == { 1, 2, 6, 7 }
PathLists == SeqsUpTo(ListPathIds, MaxBatch)

\* every list of at most MaxValidBatch paths taken from two node_modules folders
ValidPathIds == { 1, 4 }
ValidPathLists == SeqsUpTo(ValidPathIds, MaxValidBatch)

\* !nmPath || !nmPath.includes('node_modules')  =>  continue
DeleteManySkipsFalsy(v) == ~Truthy(v)
DeleteManySkips(v) == ~Truthy(v) \/ ~Includes(v.s, NodeModules)

\* The for loop from position i up to its next await:  [kind, at]  where kind is
\* "rm" (await the rm of items[at]), "throw" (the check of items[at] threw) or
\* "end" (the loop is over)
RECURSIVE LoopFrom(_, _)
LoopFrom(items, i) ==
    IF i > Len(items) THEN [kind |-> "end", at |-> i]
    ELSE IF PathCheckThrows(PathOf(items[i])) THEN [kind |-> "throw", at |-> i]
    ELSE IF DeleteManySkips(PathOf(items[i])) THEN LoopFrom(items, i + 1)
    ELSE [kind |-> "rm", at |-> i]

\* where the loop goes on after the rm of items[i] ended with outcome o
LoopAfterAbortOnFailure(items, i, o) == IF o.ok THEN i + 1 ELSE Len(items) + 1
LoopAfterSkipsNext(items, i, o) == i + 2
LoopAfter(items, i, o) == i + 1

\* deleted++ / failed++
CountsAfterAllDeleted(b, o) == [deleted |-> b.deleted + 1, failed |-> b.failed]
CountsAfter(b, o) ==
    IF o.ok THEN [deleted |-> b.deleted + 1, failed |-> b.failed]
    ELSE [deleted |-> b.deleted, failed |-> b.failed + 1]

\* the cache when delete-old-nodemodules returns
DeleteManyCacheIfDeleted(c, deleted) == IF deleted > 0 THEN Invalidated(c) ELSE c
DeleteManyCache(c, deleted) == Invalidated(c)

IdleBatch == [pc |-> "idle", items |-> <<>>, i |-> 0, deleted |-> 0, failed |-> 0,
              log |-> <<>>]

\* run the loop of b from position i to its next await, or to the end of the handler
BatchRun(b, i) ==
    LET step == LoopFrom(b.items, i) IN
    CASE step.kind = "rm" ->
            /\ batch' = [b EXCEPT !.pc = "rm", !.i = step.at]
            /\ ret' = NoReturn
            /\ UNCHANGED << cache, dirty >>
      [] step.kind = "throw" ->
            /\ batch' = IdleBatch
            /\ ret' = Returned("delete-old-nodemodules", b.items,
                               [threw |-> "TypeError", at |-> step.at], b.log)
            /\ UNCHANGED << cache, dirty >>
      [] step.kind = "end" ->
            /\ batch' = IdleBatch
            /\ cache' = DeleteManyCache(cache, b.deleted)
            /\ dirty' = (dirty \/ b.deleted > 0)
            /\ ret' = Returned("delete-old-nodemodules", b.items,
                               [success |-> TRUE, deleted |-> b.deleted, failed |-> b.failed],
                               b.log)

\* the call with something that is no array
DeleteOldNodemodulesNotArray ==
    /\ batch.pc = "idle"
    /\ ret' = Returned("delete-old-nodemodules", <<>>,
                       [success |-> FALSE, error |-> "Invalid paths"], <<>>)
    /\ UNCHANGED << now, cache, reads, del, batch, cc, ca,
                    dirty, daemonVars, scanVars, utilVars, overlapVars, queueVars >>

\* the call with an array
DeleteOldNodemodulesCall(callerLists) ==
    \E items \in callerLists :
        /\ batch.pc = "idle"
        /\ CanSuspend
        /\ BatchRun([IdleBatch EXCEPT !.items = items], 1)
        /\ UNCHANGED << now, reads, del, cc, ca, daemonVars, scanVars, utilVars,
                        overlapVars, queueVars >>

\* the rm of the current path ends
DeleteOldNodemodulesResume ==
    \E o \in RmOutcomes :
        /\ batch.pc = "rm"
        /\ LET counts == CountsAfter(batch, o)
               b == [batch EXCEPT !.deleted = counts.deleted, !.failed = counts.failed,
                                  !.log = Append(@, Probe(batch.i, batch.items[batch.i], o.ok))]
           IN BatchRun(b, LoopAfter(batch.items, batch.i, o))
        /\ UNCHANGED << now, reads, del, cc, ca, daemonVars, scanVars, utilVars,
                        overlapVars, queueVars >>

\* ------------------------------------------------------------------
\* ipcMain.handle('cleanup-cache')
\* ------------------------------------------------------------------
\* the own keys of cleanupCommands
CleanupKeys ==
    { "vscode-cache", "npm-cache", "homebrew-cache", "playwright-cache", "electron-cache" }

\* keys every object literal inherits from Object.prototype (their values are functions)
InheritedKeys == { "constructor" }

\* action values a caller can send
ActionPool == CleanupKeys \cup InheritedKeys \cup { "bogus-cache", "undefined" }

\* cleanupCommands[action]: a command string, an inherited function, or undefined
CleanupCommand(action) ==
    IF action \in CleanupKeys THEN "string"
    ELSE IF action \in InheritedKeys THEN "function"
    ELSE "undefined"

\* the cache after the rm of cleanup-cache ended with outcome o
CleanupCacheCache(c, o) == IF o.ok THEN Invalidated(c) ELSE c

CleanupCacheResult(o) ==
    IF o.ok THEN [success |-> TRUE] ELSE [success |-> FALSE, error |-> o.message]

IdleCc == [pc |-> "idle", action |-> "none"]

CleanupCacheCall ==
    \E action \in ActionPool :
        /\ cc.pc = "idle"
        /\ CanSuspend
        /\ CASE CleanupCommand(action) = "undefined" ->
                    /\ ret' = Returned("cleanup-cache", action,
                                       [success |-> FALSE, error |-> "Unknown action"], <<>>)
                    /\ UNCHANGED cc
             [] CleanupCommand(action) = "function" ->
                    \* exec rejects a command that is no string; the catch returns its message
                    /\ ret' = Returned("cleanup-cache", action,
                                       [success |-> FALSE, error |-> "ERR_INVALID_ARG_TYPE"], <<>>)
                    /\ UNCHANGED cc
             [] CleanupCommand(action) = "string" ->
                    /\ cc' = [pc |-> "rm", action |-> action]
                    /\ ret' = NoReturn
        /\ UNCHANGED << now, cache, reads, del, batch, ca,
                        dirty, daemonVars, scanVars, utilVars, overlapVars, queueVars >>

CleanupCacheResume ==
    \E o \in RmOutcomes :
        /\ cc.pc = "rm"
        /\ cc' = IdleCc
        /\ cache' = CleanupCacheCache(cache, o)
        /\ dirty' = (dirty \/ o.ok)
        /\ ret' = Returned("cleanup-cache", cc.action, CleanupCacheResult(o),
                           << ProbeOf(0, o) >>)
        /\ UNCHANGED << now, reads, del, batch, ca,
                        daemonVars, scanVars, utilVars, overlapVars, queueVars >>

\* ------------------------------------------------------------------
\* ipcMain.handle('cleanup-all')
\* ------------------------------------------------------------------
\* commands.length
CleanupAllCommands == 7

IdleCa == [pc |-> "idle", k |-> 0]

CleanupAllCall ==
    /\ ca.pc = "idle"
    /\ CanSuspend
    /\ ca' = [pc |-> "rm", k |-> 1]
    /\ ret' = NoReturn
    /\ UNCHANGED << now, cache, reads, del, batch, cc,
                    dirty, daemonVars, scanVars, utilVars, overlapVars, queueVars >>

\* the k-th rm ends; a failure is swallowed by .catch(() => {})
CleanupAllResume ==
    \E o \in RmOutcomes :
        /\ ca.pc = "rm"
        /\ IF ca.k < CleanupAllCommands
           THEN /\ ca' = [ca EXCEPT !.k = @ + 1]
                /\ ret' = NoReturn
                /\ UNCHANGED << cache, dirty >>
           ELSE /\ ca' = IdleCa
                /\ cache' = Invalidated(cache)
                /\ UNCHANGED dirty
                /\ ret' = Returned("cleanup-all", "none", [success |-> TRUE], <<>>)
        /\ UNCHANGED << now, reads, del, batch, cc,
                        daemonVars, scanVars, utilVars, overlapVars, queueVars >>

\* ------------------------------------------------------------------
\* The clock
\* ------------------------------------------------------------------
Tick ==
    /\ now + TickMs <= StartTime + MaxTicks * TickMs
    /\ now' = now + TickMs
    /\ ret' = NoReturn
    /\ UNCHANGED << cache, reads, del, batch, cc, ca,
                    dirty, daemonVars, scanVars, utilVars, overlapVars, queueVars >>

\* ------------------------------------------------------------------
\* The daemon: executeCommand
\* ------------------------------------------------------------------
\* await execAsync(`rm -rf "..." 2>/dev/null || true`): the shell always exits 0, so
\* the promise rejects only when the child process cannot be run at all
DaemonRmOutcomes ==
    { [ok |-> TRUE, message |-> "none"], [ok |-> FALSE, message |-> "spawn failed"] }

\* if (p.includes('node_modules'))
DaemonDeletes(v) == Includes(v.s, NodeModules)

\* p.includes throws for null, undefined and numbers
DaemonCheckThrows(v) == ~HasIncludes(v)

\* The for loop over cmd.paths from position i up to its next await
RECURSIVE DaemonLoopFrom(_, _)
DaemonLoopFrom(items, i) ==
    IF i > Len(items) THEN [kind |-> "end", at |-> i]
    ELSE IF DaemonCheckThrows(PathOf(items[i])) THEN [kind |-> "throw", at |-> i]
    ELSE IF DaemonDeletes(PathOf(items[i])) THEN [kind |-> "rm", at |-> i]
    ELSE DaemonLoopFrom(items, i + 1)

\* the two rm commands of 'cleanup-caches'
CleanupCachesCommands == 2

IdleDaemon == [pc |-> "idle", type |-> "none", items |-> <<>>, i |-> 0]

\* commands a remote client can queue
DaemonCommands ==
    { [type |-> t, hasPaths |-> FALSE, items |-> <<>>] :
        t \in { "cleanup-caches", "cleanup-nodemodules", "reboot" } }
    \cup { [type |-> "cleanup-nodemodules", hasPaths |-> TRUE, items |-> q] :
             q \in PathLists }

\* run the loop over cmd.paths from position i to its next await or to the end
DaemonRun(type, items, i) ==
    LET step == DaemonLoopFrom(items, i) IN
    CASE step.kind = "rm" ->
            /\ daemon' = [pc |-> "rm", type |-> type, items |-> items, i |-> step.at]
            /\ ret' = NoReturn
      [] step.kind = "throw" ->
            /\ daemon' = IdleDaemon
            /\ ret' = Returned("executeCommand", items, [threw |-> "TypeError"], <<>>)
      [] step.kind = "end" ->
            /\ daemon' = IdleDaemon
            /\ ret' = Returned("executeCommand", items, [done |-> type], <<>>)

ExecuteCommandCall ==
    \E cmd \in DaemonCommands :
        /\ daemon.pc = "idle"
        /\ CASE cmd.type = "cleanup-caches" ->
                    /\ daemon' = [pc |-> "rm", type |-> cmd.type, items |-> <<>>, i |-> 1]
                    /\ ret' = NoReturn
             [] cmd.type = "cleanup-nodemodules" /\ cmd.hasPaths ->
                    DaemonRun(cmd.type, cmd.items, 1)
             [] OTHER ->
                    /\ ret' = Returned("executeCommand", cmd.items, [done |-> cmd.type], <<>>)
                    /\ UNCHANGED daemon
        /\ UNCHANGED << now, cache, reads, del, batch, cc, ca, dirty, scanVars, utilVars,
                        overlapVars, queueVars >>

\* the rm the daemon awaits ends
ExecuteCommandResume ==
    \E o \in DaemonRmOutcomes :
        /\ daemon.pc = "rm"
        /\ IF ~o.ok
           THEN /\ daemon' = IdleDaemon
                /\ ret' = Returned("executeCommand", daemon.items, [threw |-> o.message], <<>>)
           ELSE IF daemon.type = "cleanup-caches"
           THEN IF daemon.i < CleanupCachesCommands
                THEN /\ daemon' = [daemon EXCEPT !.i = @ + 1]
                     /\ ret' = NoReturn
                ELSE /\ daemon' = IdleDaemon
                     /\ ret' = Returned("executeCommand", daemon.items,
                                        [done |-> daemon.type], <<>>)
           ELSE DaemonRun(daemon.type, daemon.items, daemon.i + 1)
        /\ UNCHANGED << now, cache, reads, del, batch, cc, ca, dirty, scanVars, utilVars,
                        overlapVars, queueVars >>

\* ------------------------------------------------------------------
\* Numbers and their text
\* ------------------------------------------------------------------
\* Digits of a decimal number
DigitValue(c) ==
    CASE c = "0" -> 0 [] c = "1" -> 1 [] c = "2" -> 2 [] c = "3" -> 3 [] c = "4" -> 4
      [] c = "5" -> 5 [] c = "6" -> 6 [] c = "7" -> 7 [] c = "8" -> 8 [] c = "9" -> 9
      [] OTHER -> -1

\* parseInt(text): the number written by the leading digits, -1 for NaN
RECURSIVE ParseDigits(_, _, _)
ParseDigits(text, i, acc) ==
    IF i > Len(text) \/ DigitValue(text[i]) < 0 THEN acc
    ELSE ParseDigits(text, i + 1, (IF acc < 0 THEN 0 ELSE acc) * 10 + DigitValue(text[i]))

ParseInt(text) == ParseDigits(text, 1, -1)

\* parseInt(...) || 0
ParseIntOrZero(text) == IF ParseInt(text) < 0 THEN 0 ELSE ParseInt(text)

\* String(n) for an integer n >= 0
RECURSIVE DigitsOf(_)
DigitsOf(n) ==
    LET d == << <<"0">>, <<"1">>, <<"2">>, <<"3">>, <<"4">>, <<"5">>, <<"6">>, <<"7">>,
                <<"8">>, <<"9">> >>
    IN IF n < 10 THEN d[n + 1] ELSE DigitsOf(n \div 10) \o d[(n % 10) + 1]

\* A JavaScript number that is no integer is kept exactly, as  whole + num / den
\* with 0 <= num < den, den the least power of ten that serves
RECURSIVE Number(_, _, _)
Number(whole, num, den) ==
    IF den > 1 /\ num % 10 = 0 THEN Number(whole, num \div 10, den \div 10)
    ELSE [t |-> "number", whole |-> whole, num |-> num, den |-> den]
\* NaN is a value of its own
NaN == [t |-> "NaN", whole |-> 0, num |-> 0, den |-> 1]

\* ------------------------------------------------------------------
\* utils.js: parseSizeToBytes, formatBytes, extractProjectName, shouldExcludePath
\* ------------------------------------------------------------------
\* parseFloat of a run of digits and dots: the digits, a dot, the digits after it;
\* NaN when there is no digit
ParseFloat(text) ==
    LET isDigit(k) == DigitValue(text[k]) >= 0
        intLen == CHOOSE n \in 0..Len(text) :
                      /\ \A k \in 1..n : isDigit(k)
                      /\ n < Len(text) => ~isDigit(n + 1)
        hasDot == intLen < Len(text) /\ text[intLen + 1] = "."
        fracLen == IF ~hasDot THEN 0
                   ELSE CHOOSE n \in 0..(Len(text) - intLen - 1) :
                            /\ \A k \in 1..n : isDigit(intLen + 1 + k)
                            /\ intLen + 1 + n < Len(text) => ~isDigit(intLen + 2 + n)
        frac == SubSeq(text, intLen + 2, intLen + 1 + fracLen)
    IN IF intLen = 0 /\ fracLen = 0 THEN NaN
       ELSE Number(ParseIntOrZero(SubSeq(text, 1, intLen)), ParseIntOrZero(frac),
                   10 ^ fracLen)

\* the power of 1024 of a unit letter:  { '': 1, 'K': 1024, 'M': 1024**2, ... }
UnitPower(unit) ==
    CASE unit \in { "K", "k" } -> 1 [] unit \in { "M", "m" } -> 2
      [] unit \in { "G", "g" } -> 3 [] unit \in { "T", "t" } -> 4 [] OTHER -> 0

\* x * base, k times
RECURSIVE ScaleBy(_, _, _)
ScaleBy(x, base, k) ==
    IF k = 0 \/ x.t = "NaN" THEN x
    ELSE ScaleBy(Number(x.whole * base + (x.num * base) \div x.den, (x.num * base) % x.den,
                        x.den),
                 base, k - 1)

\* num * (multipliers[unit] || 1)
TimesMultiplierDecimal(x, unit) == ScaleBy(x, 1000, UnitPower(unit))
TimesMultiplier(x, unit) == ScaleBy(x, 1024, UnitPower(unit))

\* parseSizeToBytes(size):  /^([\d.]+)([KMGT]?)i?B?$/i
ParseSizeToBytes(size) ==
    IF size.t # "string" \/ size.s = <<>> THEN Number(0, 0, 1)
    ELSE LET text == size.s
             numLen == CHOOSE n \in 0..Len(text) :
                           /\ \A k \in 1..n : DigitValue(text[k]) >= 0 \/ text[k] = "."
                           /\ n < Len(text) =>
                                 ~(DigitValue(text[n + 1]) >= 0 \/ text[n + 1] = ".")
             rest == SubSeq(text, numLen + 1, Len(text))
             units == { <<>> } \cup { << u >> : u \in { "K", "M", "G", "T", "k", "m", "g", "t" } }
             matches == /\ numLen >= 1
                        /\ \E u \in units : \E i \in { <<>>, <<"i">>, <<"I">> } :
                              \E b \in { <<>>, <<"B">>, <<"b">> } : rest = u \o i \o b
             unit == IF rest # <<>> /\ UnitPower(rest[1]) > 0 THEN rest[1] ELSE ""
         IN IF ~matches THEN Number(0, 0, 1)
            ELSE TimesMultiplier(ParseFloat(SubSeq(text, 1, numLen)), unit)

\* (bytes / unit).toFixed(1) for unit = 1024**2 or 1024**3: tenths, rounded half up
ToFixed1(bytes, unit) ==
    LET r == bytes.whole % unit
        tenths == 10 * (bytes.whole \div unit)
                  + (10 * (r \div 1024) + (unit \div 1024) \div 2
                     + (10 * (r % 1024) + (10 * bytes.num) \div bytes.den) \div 1024)
                    \div (unit \div 1024)
    IN DigitsOf(tenths \div 10) \o <<".">> \o DigitsOf(tenths % 10)

\* the digits after the point of  num / den, den a power of ten
RECURSIVE FractionDigits(_, _)
FractionDigits(num, den) ==
    IF num = 0 THEN <<>>
    ELSE DigitsOf((10 * num) \div den) \o FractionDigits((10 * num) % den, den)

\* String(x) for a number x >= 0
NumberText(x) ==
    IF x.num = 0 THEN DigitsOf(x.whole)
    ELSE DigitsOf(x.whole) \o <<".">> \o FractionDigits(x.num, x.den)

\* formatBytes(bytes)
FormatBytes(bytes) ==
    IF bytes.t = "NaN" THEN <<"N", "a", "N", "G", "B">>
    ELSE IF bytes.t # "number" \/ bytes.whole < 0 THEN <<"0", "B">>
    ELSE IF bytes.whole < 1024 THEN NumberText(bytes) \o <<"B">>
    ELSE IF bytes.whole < 1024 ^ 2
         THEN DigitsOf((bytes.whole + 512) \div 1024) \o <<"K", "B">>
    ELSE IF bytes.whole < 1024 ^ 3 THEN ToFixed1(bytes, 1024 ^ 2) \o <<"M", "B">>
    ELSE ToFixed1(bytes, 1024 ^ 3) \o <<"G", "B">>

\* isValidNodeModulesPath(path)
IsValidNodeModulesPath(path) ==
    /\ path.t = "string"
    /\ path.s # <<>>
    /\ Includes(path.s, NodeModules)
    /\ ~Includes(path.s, DotDot)

\* nmPath.replace(/\/node_modules$/, '')
ParentPath(nmPath) ==
    LET tail == Slash \o NodeModules
    IN IF Len(nmPath) >= Len(tail)
          /\ SubSeq(nmPath, Len(nmPath) - Len(tail) + 1, Len(nmPath)) = tail
       THEN SubSeq(nmPath, 1, Len(nmPath) - Len(tail))
       ELSE nmPath

\* parentPath.split('/').pop()
LastSegment(path) ==
    LET slashes == { k \in 1..Len(path) : path[k] = "/" }
        last == IF slashes = {} THEN 0 ELSE CHOOSE k \in slashes : \A j \in slashes : j <= k
    IN SubSeq(path, last + 1, Len(path))

Unknown == <<"U", "n", "k", "n", "o", "w", "n">>

\* extractProjectName(nmPath)
ExtractProjectName(nmPath) ==
    IF nmPath.t # "string" \/ nmPath.s = <<>> THEN Unknown
    ELSE IF LastSegment(ParentPath(nmPath.s)) = <<>> THEN Unknown
    ELSE LastSegment(ParentPath(nmPath.s))

\* shouldExcludePath(path, seenPaths), seenPaths a set of strings
ShouldExcludePathAnyPrefix(path, seenPaths) ==
    \/ path.t # "string" \/ path.s = <<>>
    \/ path.s \in seenPaths
    \/ \E seen \in seenPaths :
          Len(seen) <= Len(path.s) /\ SubSeq(path.s, 1, Len(seen)) = seen
ShouldExcludePath(path, seenPaths) ==
    \/ path.t # "string" \/ path.s = <<>>
    \/ path.s \in seenPaths
    \/ \E seen \in seenPaths :
          Len(seen \o Slash) <= Len(path.s)
          /\ SubSeq(path.s, 1, Len(seen \o Slash)) = seen \o Slash

\* One call chain of the helpers: the input, the set a path is tested against, the
\* value the last call returned and the calls made
IdleUtil == [origin |-> Null, seen |-> {}, val |-> Null, ops |-> <<>>]

Boolean(b) == [t |-> "boolean", b |-> b]

\* byte counts callers pass: k * 2^e and a few that are no power of two
ByteCounts ==
    { k * 2 ^ e : k \in 1..MaxMantissa, e \in { 0, 9, 10, 19, 20, 28 } }
        \cup { 0, 1023, 1500000000, 1048575, -1 }

\* size texts callers pass
SizeTexts ==
    { << "1", ".", "5", "G" >>,
      << "1", ".", "5", "G", "B" >>,
      << "1", ".", "5", "G", "i", "B" >>,
      << "1", "g" >>,
      << "1", "G" >>,
      << "2", ".", "5", "K" >>,
      << "5", "1", "2", "k" >>,
      << "1", ".", "5", "M" >>,
      << "1", "0", "0" >>,
      << "1", "0", "0", "B" >>,
      << "1", ".", "3", "G", "B" >>,
      << "1", ".", "5", " ", "G", "B" >>,
      << "i", "n", "v", "a", "l", "i", "d" >>,
      << "-", "1", "0", "0" >>,
      << "." >>,
      << "1", ".", "5", ".", "3", "K" >>,
      << "1", ".", "5", "X" >> }

\* paths callers pass
UtilPaths ==
    { << "/", "a", "/", "n", "o", "d", "e", "_", "m", "o", "d", "u", "l", "e", "s" >>,
      << "/", "a", "/", "n", "o", "d", "e", "_", "m", "o", "d", "u", "l", "e", "s", "/", "b", "/", "n", "o", "d", "e", "_", "m", "o", "d", "u", "l", "e", "s" >>,
      << "/", "a", "/", "n", "o", "d", "e", "_", "m", "o", "d", "u", "l", "e", "s", "2" >>,
      << "/", "c", "/", "n", "o", "d", "e", "_", "m", "o", "d", "u", "l", "e", "s" >>,
      << "/", "n", "o", "d", "e", "_", "m", "o", "d", "u", "l", "e", "s" >>,
      << "n", "o", "d", "e", "_", "m", "o", "d", "u", "l", "e", "s" >>,
      << "/", "a", "/", "b" >> }

\* sets of seen paths
SeenSets == SUBSET { << "/", "a", "/", "n", "o", "d", "e", "_", "m", "o", "d", "u", "l", "e", "s" >>,
             << "/", "c", "/", "n", "o", "d", "e", "_", "m", "o", "d", "u", "l", "e", "s" >> }

UtilInputs ==
    { Number(n, 0, 1) : n \in ByteCounts } \cup { Str(t) : t \in SizeTexts \cup UtilPaths }
        \cup { Str(<<>>), Null, NaN }

ParseSizeToBytesCall ==
    /\ Len(util.ops) < MaxCalls
    /\ util' = [util EXCEPT !.val = ParseSizeToBytes(util.val),
                            !.ops = Append(@, "parseSizeToBytes")]
    /\ UNCHANGED << now, cache, reads, del, batch, cc, ca, ret, dirty, daemonVars, scanVars,
                    queueVars, overlapVars >>

FormatBytesCall ==
    /\ Len(util.ops) < MaxCalls
    /\ util' = [util EXCEPT !.val = Str(FormatBytes(util.val)),
                            !.ops = Append(@, "formatBytes")]
    /\ UNCHANGED << now, cache, reads, del, batch, cc, ca, ret, dirty, daemonVars, scanVars,
                    queueVars, overlapVars >>

ExtractProjectNameCall ==
    /\ Len(util.ops) < MaxCalls
    /\ util' = [util EXCEPT !.val = Str(ExtractProjectName(util.val)),
                            !.ops = Append(@, "extractProjectName")]
    /\ UNCHANGED << now, cache, reads, del, batch, cc, ca, ret, dirty, daemonVars, scanVars,
                    queueVars, overlapVars >>

ShouldExcludePathCall ==
    /\ Len(util.ops) < MaxCalls
    /\ util' = [util EXCEPT !.val = Boolean(ShouldExcludePath(util.val, util.seen)),
                            !.ops = Append(@, "shouldExcludePath")]
    /\ UNCHANGED << now, cache, reads, del, batch, cc, ca, ret, dirty, daemonVars, scanVars,
                    queueVars, overlapVars >>

\* ------------------------------------------------------------------
\* ipcMain.handle('scan-nodemodules')
\* ------------------------------------------------------------------
\* searchPaths.length
SearchPaths == 7

\* 1000 * 60 * 60 * 24
DayMs == 1000 * 60 * 60 * 24

\* Lines a find child process can print when the home directory is  / : the paths of
\* three node_modules folders, the second inside the first, the third in the root
ScanPathPool ==
    << Slash \o <<"a">> \o Slash \o NodeModules,                               \* /a/node_modules
       Slash \o <<"a">> \o Slash \o NodeModules \o Slash \o <<"b">> \o Slash \o NodeModules,
                                                                 \* /a/node_modules/b/node_modules
       Slash \o NodeModules >>                                                 \* /node_modules

ScanPathIds == 1..Len(ScanPathPool)

\* a line of stdout: a path of the pool, or 0 for an empty line
LineIds == ScanPathIds \cup { 0 }

\* String.prototype.startsWith
StartsWith(s, prefix) ==
    Len(prefix) <= Len(s) /\ SubSeq(s, 1, Len(prefix)) = prefix

\* p.startsWith(seen + '/')
InsideSeen(p, seen) == StartsWith(ScanPathPool[p], ScanPathPool[seen] \o Slash)

\* stdout.trim().split('\n').filter(Boolean)
SplitLines(stdout) == SelectSeq(stdout, LAMBDA l : l # 0)

\* if (seenPaths.has(p)) continue;
\* if ([...seenPaths].some(seen => p.startsWith(seen + '/'))) continue;
\* seenPaths.add(p);
SeenAddUnlessNested(seenPaths, p) ==
    IF \E k \in 1..Len(seenPaths) : InsideSeen(p, seenPaths[k]) THEN seenPaths
    ELSE Append(seenPaths, p)
SeenAdd(seenPaths, p) ==
    IF \E k \in 1..Len(seenPaths) : seenPaths[k] = p THEN seenPaths
    ELSE IF \E k \in 1..Len(seenPaths) : InsideSeen(p, seenPaths[k]) THEN seenPaths
    ELSE Append(seenPaths, p)

\* for (const p of paths) ...   from position i of paths
RECURSIVE SeenAddAll(_, _, _)
SeenAddAll(seenPaths, paths, i) ==
    IF i > Len(paths) THEN seenPaths
    ELSE SeenAddAll(SeenAdd(seenPaths, paths[i]), paths, i + 1)

\* The ways  await execAsync(`find ...`, { timeout, maxBuffer })  can end: rejected
\* (find exits with an error, times out or overflows the buffer) or resolved with
\* the lines of stdout
FindOutcomes ==
    { [kind |-> "rejected", stdout |-> <<>>] }
    \cup { [kind |-> "resolved", stdout |-> q] : q \in SeqsUpTo(LineIds, MaxFindLines) }

\* seenPaths after the find of one root ended with outcome o
SeenAfterFind(seenPaths, o) ==
    IF o.kind = "rejected" THEN seenPaths
    ELSE SeenAddAll(seenPaths, SplitLines(o.stdout), 1)

\* what the handler does after the find of root k ended with outcome o: "abort" would
\* leave the loop, "next" goes on with the next root
AfterFindAbortsOnFailure(o) == IF o.kind = "rejected" THEN "abort" ELSE "next"
AfterFind(o) == "next"

\* stdout of  du -sk  : nothing, or the size in KB, a tab and the path
DuTexts == { <<>>, <<"4", "\t", "/">>, <<"1", "1", "0", "0", "\t", "/">> }

\* stdout of  stat -f "%a"  : nothing, or the access time in seconds: 15 days before
\* the start of the scan clock, one second later, and one day later
StatSeconds ==
    LET t == (ScanStartDays * DayMs) \div 1000
    IN { t - 15 * 86400, t - 15 * 86400 + 1, t - 14 * 86400 }

StatTexts == { <<>> } \cup { DigitsOf(t) : t \in StatSeconds }

\* The ways the two probes of a path can end
DuOutcomes ==
    { [kind |-> "rejected", stdout |-> <<>>] }
    \cup { [kind |-> "resolved", stdout |-> t] : t \in DuTexts }

StatOutcomes ==
    { [kind |-> "rejected", stdout |-> <<>>] }
    \cup { [kind |-> "resolved", stdout |-> t] : t \in StatTexts }

\* Math.floor((now - lastAccessDate) / (1000 * 60 * 60 * 24))
DaysAgo(t, lastAccessTimestamp) == (t - lastAccessTimestamp * 1000) \div DayMs

\* isOld: daysAgo > 14
IsOldFromFourteen(daysAgo) == daysAgo >= 14
IsOld(daysAgo) == daysAgo > 14

\* The async function mapped over seenPaths, for one path: pc is "du" or "stat" (the
\* probe it awaits) or "done"; du and stat are how the probes ended, sizeOut and
\* statOut what they printed; result is "entry" or "null" once the function returned
NewJob(p) ==
    [pc |-> "du", p |-> p, du |-> "pending", stat |-> "pending", result |-> "pending",
     sizeOut |-> <<>>, statOut |-> <<>>,
     sizeKB |-> 0, lastAccessTimestamp |-> 0, daysAgo |-> 0]

\* the job after its du ended with outcome o:  catch (e) { return null }
JobAfterDuKeepsEntry(job, o) ==
    [job EXCEPT !.pc = "stat", !.du = o.kind, !.sizeOut = o.stdout,
                !.sizeKB = ParseIntOrZero(o.stdout)]
JobAfterDu(job, o) ==
    IF o.kind = "rejected"
    THEN [job EXCEPT !.pc = "done", !.du = "rejected", !.result = "null"]
    ELSE [job EXCEPT !.pc = "stat", !.du = "resolved", !.sizeOut = o.stdout,
                     !.sizeKB = ParseIntOrZero(o.stdout)]

\* the job after its stat ended with outcome o at time t
JobAfterStatClearsSize(job, o, t) ==
    IF o.kind = "rejected"
    THEN [job EXCEPT !.pc = "done", !.stat = "rejected", !.result = "null"]
    ELSE [job EXCEPT !.pc = "done", !.stat = "resolved", !.result = "entry",
                     !.statOut = o.stdout,
                     !.sizeKB = IF ParseInt(o.stdout) < 0 THEN 0 ELSE @,
                     !.lastAccessTimestamp = ParseIntOrZero(o.stdout),
                     !.daysAgo = DaysAgo(t, ParseIntOrZero(o.stdout))]
JobAfterStat(job, o, t) ==
    IF o.kind = "rejected"
    THEN [job EXCEPT !.pc = "done", !.stat = "rejected", !.result = "null"]
    ELSE [job EXCEPT !.pc = "done", !.stat = "resolved", !.result = "entry",
                     !.statOut = o.stdout,
                     !.lastAccessTimestamp = ParseIntOrZero(o.stdout),
                     !.daysAgo = DaysAgo(t, ParseIntOrZero(o.stdout))]

\* the job returned an entry (not null)
HasEntry(job) == job.result = "entry"

\* the entry a job returns
EntryOf(job) ==
    [path |-> job.p,
     parentPath |-> ParentPath(ScanPathPool[job.p]),
     projectName |-> LastSegment(ParentPath(ScanPathPool[job.p])),
     size |-> FormatBytes(Number(job.sizeKB * 1024, 0, 1)),
     sizeBytes |-> job.sizeKB * 1024,
     lastAccessTimestamp |-> job.lastAccessTimestamp,
     daysAgo |-> job.daysAgo, isOld |-> IsOld(job.daysAgo)]

\* results.filter(Boolean)
RECURSIVE FilterEntries(_, _)
FilterEntries(jobs, i) ==
    IF i > Len(jobs) THEN <<>>
    ELSE (IF HasEntry(jobs[i]) THEN << EntryOf(jobs[i]) >> ELSE <<>>)
         \o FilterEntries(jobs, i + 1)

\* .sort((a, b) => b.sizeBytes - a.sizeBytes): stable, largest first
RECURSIVE SortBySize(_)
SortBySize(entries) ==
    IF entries = <<>> THEN <<>>
    ELSE LET front == SortBySize(SubSeq(entries, 1, Len(entries) - 1))
             e == entries[Len(entries)]
             k == Cardinality({ j \in 1..Len(front) : front[j].sizeBytes >= e.sizeBytes })
         IN SubSeq(front, 1, k) \o << e >> \o SubSeq(front, k + 1, Len(front))

\* validResults.reduce((sum, r) => sum + r.sizeBytes, 0)
TotalBytesOfLargest(entries) ==
    IF entries = <<>> THEN 0 ELSE entries[1].sizeBytes
RECURSIVE TotalBytes(_)
TotalBytes(entries) ==
    IF entries = <<>> THEN 0
    ELSE entries[1].sizeBytes + TotalBytes(Tail(entries))

\* the value the handler returns once every job is done
ScanResult(jobs) ==
    LET validResults == SortBySize(FilterEntries(jobs, 1))
    IN [success |-> TRUE,
        nodeModules |-> validResults,
        total |-> FormatBytes(Number(TotalBytes(validResults), 0, 1)),
        count |-> Len(validResults),
        oldCount |-> Cardinality({ k \in 1..Len(validResults) : validResults[k].isOld })]

\* the value the outer catch returns
ScanError ==
    [success |-> FALSE, nodeModules |-> <<>>, total |-> << "0", "B" >>, count |-> 0]

IdleScan == [pc |-> "idle", root |-> 0, find |-> "none", seenPaths |-> <<>>, jobs |-> <<>>]

\* Promise.all over the jobs: suspended while a job is not done, else the handler
\* goes on to its return.  The steps of the handler give the state of the invocation
\* after the step and what the step returned to the caller
ScanAwaitJobs(seenPaths, jobs, find) ==
    IF \E k \in 1..Len(jobs) : jobs[k].pc # "done"
    THEN [scan |-> [pc |-> "probe", root |-> SearchPaths, find |-> find,
                    seenPaths |-> seenPaths, jobs |-> jobs],
          ret |-> NoReturn]
    ELSE [scan |-> IdleScan,
          ret |-> Returned("scan-nodemodules", seenPaths, ScanResult(jobs), jobs)]

\* the invocation s after the find of its current root ended with outcome o
ScanAfterFind(s, o) ==
    LET seenPaths == SeenAfterFind(s.seenPaths, o) IN
    IF AfterFind(o) = "abort"
    THEN [scan |-> IdleScan,
          ret |-> Returned("scan-nodemodules", s.seenPaths, ScanError, <<>>)]
    ELSE IF s.root < SearchPaths
    THEN [scan |-> [s EXCEPT !.root = @ + 1, !.find = o.kind, !.seenPaths = seenPaths],
          ret |-> NoReturn]
    ELSE ScanAwaitJobs(seenPaths, [k \in 1..Len(seenPaths) |-> NewJob(seenPaths[k])],
                       o.kind)

\* the invocation s after the probe its job j awaits ended with outcome o at time t
ScanAfterProbe(s, j, o, t) ==
    IF s.jobs[j].pc = "du"
    THEN ScanAwaitJobs(s.seenPaths, [s.jobs EXCEPT ![j] = JobAfterDu(@, o)], s.find)
    ELSE ScanAwaitJobs(s.seenPaths, [s.jobs EXCEPT ![j] = JobAfterStat(@, o, t)], s.find)

\* the call: suspend at the find of the first root
ScanNodemodulesCall ==
    /\ scan.pc = "idle"
    /\ scan' = [IdleScan EXCEPT !.pc = "find", !.root = 1]
    /\ ret' = NoReturn
    /\ UNCHANGED << now, cache, reads, del, batch, cc, ca, dirty, daemonVars, queueVars,
                    utilVars, overlapVars >>

\* the find of the current root ends
ScanFindResume ==
    \E o \in FindOutcomes :
        /\ scan.pc = "find"
        /\ scan' = ScanAfterFind(scan, o).scan
        /\ ret' = ScanAfterFind(scan, o).ret
        /\ UNCHANGED << now, cache, reads, del, batch, cc, ca, dirty, daemonVars, queueVars,
                        utilVars, overlapVars >>

\* a probe of one of the jobs ends
ScanProbeResume ==
    \E j \in 1..Len(scan.jobs) :
        /\ scan.pc = "probe"
        /\ scan.jobs[j].pc # "done"
        /\ \E o \in (IF scan.jobs[j].pc = "du" THEN DuOutcomes ELSE StatOutcomes) :
              /\ scan' = ScanAfterProbe(scan, j, o, now).scan
              /\ ret' = ScanAfterProbe(scan, j, o, now).ret
        /\ UNCHANGED << now, cache, reads, del, batch, cc, ca, dirty, daemonVars, queueVars,
                        utilVars, overlapVars >>

\* ------------------------------------------------------------------
\* Invocations of scan-nodemodules that overlap: the renderer invokes the handler
\* again while an earlier invocation is suspended; all probe one filesystem
\* ------------------------------------------------------------------
\* A filesystem: how the find of each root ends, and the du and the stat of each path
FindPool ==
    { o \in FindOutcomes : o.kind = "rejected" \/ o.stdout \in { << 1 >>, << 2, 1 >>, << 3 >> } }

Resolved(text) == [kind |-> "resolved", stdout |-> text]

FsPool ==
    { [find |-> [r \in 1..SearchPaths |->
                    IF r = 1 THEN a ELSE IF r = SearchPaths THEN b ELSE Resolved(<<>>)],
       du |-> [p \in ScanPathIds |-> IF p = 1 THEN d ELSE Resolved(<<"4", "\t", "/">>)],
       stat |-> [p \in ScanPathIds |-> IF p = 3 THEN st ELSE Resolved(<<>>)]] :
        a \in FindPool, b \in FindPool,
        d \in { o \in DuOutcomes : o.stdout = <<>> },
        st \in { o \in StatOutcomes : o.stdout = <<>> } }

NoFs == [find |-> <<>>, du |-> <<>>, stat |-> <<>>]

IdleScans == [fs |-> NoFs, run |-> [i \in 1..MaxScans |-> IdleScan]]

\* const seenPaths = new Set()  is local to the invocation: invocation i reads and
\* writes its own set
OwnSeenPathsShared(run, i) == [run[i] EXCEPT !.seenPaths = run[1].seenPaths]
OwnSeenPaths(run, i) == run[i]

\* an invocation starts
OverlapScanCall ==
    \E i \in 1..MaxScans :
        /\ scans.run[i].pc = "idle"
        /\ scans' = [scans EXCEPT !.run[i] = [IdleScan EXCEPT !.pc = "find", !.root = 1]]
        /\ ret' = NoReturn
        /\ UNCHANGED << now, cache, reads, del, batch, cc, ca, dirty, daemonVars, scanVars,
                        queueVars, utilVars >>

\* the find an invocation awaits ends
OverlapFindResume ==
    \E i \in 1..MaxScans :
        /\ scans.run[i].pc = "find"
        /\ LET step == ScanAfterFind(OwnSeenPaths(scans.run, i),
                                     scans.fs.find[scans.run[i].root])
           IN /\ scans' = [scans EXCEPT !.run[i] = step.scan]
              /\ ret' = step.ret
        /\ UNCHANGED << now, cache, reads, del, batch, cc, ca, dirty, daemonVars, scanVars,
                        queueVars, utilVars >>

\* a probe an invocation awaits ends
OverlapProbeResume ==
    \E i \in 1..MaxScans : \E j \in 1..Len(scans.run[i].jobs) :
        /\ scans.run[i].pc = "probe"
        /\ scans.run[i].jobs[j].pc # "done"
        /\ LET job == scans.run[i].jobs[j]
               o == IF job.pc = "du" THEN scans.fs.du[job.p] ELSE scans.fs.stat[job.p]
               step == ScanAfterProbe(scans.run[i], j, o, now)
           IN /\ scans' = [scans EXCEPT !.run[i] = step.scan]
              /\ ret' = step.ret
        /\ UNCHANGED << now, cache, reads, del, batch, cc, ca, dirty, daemonVars, scanVars,
                        queueVars, utilVars >>

\* ------------------------------------------------------------------
\* The command queue: sendCleanupCommand (mobile client) and checkCommandQueue (daemon)
\* ------------------------------------------------------------------
\* CommandQueue(): the document before the first command is sent does not exist
NoQueue == [exists |-> FALSE, pending |-> <<>>, processed |-> <<>>]

\* CleanupCommand(type, paths, timestamp): paths is nil or a list of strings; the
\* timestamp is the number of the command
SenderPathLists == { << 1 >>, << 2, 1 >> }

SenderCommands(n) ==
    { [type |-> t, hasPaths |-> FALSE, items |-> <<>>, timestamp |-> n] :
        t \in { "cleanup-caches", "cleanup-nodemodules" } }
    \cup { [type |-> "cleanup-nodemodules", hasPaths |-> TRUE, items |-> q, timestamp |-> n] :
             q \in SenderPathLists }

\* a read or a write of the document succeeds or fails
FileOutcomes == { "ok", "failed" }

IdleSender == [pc |-> "idle", sent |-> 0, pending |-> <<>>, processed |-> <<>>]

\* sendCleanupCommand up to its write: load the queue or create a new one, append
SendCleanupCommandCall ==
    \E cmd \in SenderCommands(sender.sent + 1) : \E o \in FileOutcomes :
        /\ sender.pc = "idle"
        /\ sender.sent < MaxCommands
        /\ IF queue.exists /\ o = "failed"
           THEN /\ sender' = [sender EXCEPT !.sent = @ + 1]
                /\ ret' = Returned("sendCleanupCommand", cmd, [threw |-> "read"], <<>>)
           ELSE /\ sender' = [pc |-> "write", sent |-> sender.sent + 1,
                              pending |-> Append(queue.pending, cmd),
                              processed |-> queue.processed]
                /\ ret' = NoReturn
        /\ UNCHANGED << now, cache, reads, del, batch, cc, ca, dirty, daemonVars, scanVars,
                        utilVars, overlapVars, queue, poll, executed >>

\* try data.write(to: commandFile)
SendCleanupCommandWrite ==
    \E o \in FileOutcomes :
        /\ sender.pc = "write"
        /\ sender' = [IdleSender EXCEPT !.sent = sender.sent]
        /\ IF o = "ok"
           THEN /\ queue' = [exists |-> TRUE, pending |-> sender.pending,
                             processed |-> sender.processed]
                /\ ret' = Returned("sendCleanupCommand", sender.pending[Len(sender.pending)],
                                   [sent |-> TRUE], <<>>)
           ELSE /\ ret' = Returned("sendCleanupCommand", sender.pending[Len(sender.pending)],
                                   [threw |-> "write"], <<>>)
                /\ UNCHANGED queue
        /\ UNCHANGED << now, cache, reads, del, batch, cc, ca, dirty, daemonVars, scanVars,
                        utilVars, overlapVars, poll, executed >>

\* for (const cmd of commands.pending) await executeCommand(cmd): from command k, and
\* inside command k from path i, up to the next await:  [kind, k, i]  where kind is
\* "rm" (an rm is awaited), "throw" (executeCommand threw) or "write" (every command
\* is executed and the write of the drained queue is awaited)
RECURSIVE CommandsFrom(_, _)
RECURSIVE CommandPathsFrom(_, _, _)
CommandsFrom(pending, k) ==
    IF k > Len(pending) THEN [kind |-> "write", k |-> k, i |-> 0]
    ELSE IF pending[k].type = "cleanup-caches" THEN [kind |-> "rm", k |-> k, i |-> 1]
    ELSE IF pending[k].type = "cleanup-nodemodules" /\ pending[k].hasPaths
         THEN CommandPathsFrom(pending, k, 1)
    ELSE CommandsFrom(pending, k + 1)

CommandPathsFrom(pending, k, i) ==
    LET step == DaemonLoopFrom(pending[k].items, i) IN
    CASE step.kind = "rm" -> [kind |-> "rm", k |-> k, i |-> step.at]
      [] step.kind = "throw" -> [kind |-> "throw", k |-> k, i |-> step.at]
      [] step.kind = "end" -> CommandsFrom(pending, k + 1)

\* where the poll goes on after the rm it awaited, at path or step i of command k,
\* resolved
AfterCommandRm(pending, k, i) ==
    IF pending[k].type = "cleanup-caches"
    THEN IF i < CleanupCachesCommands
         THEN [kind |-> "rm", k |-> k, i |-> i + 1]
         ELSE CommandsFrom(pending, k + 1)
    ELSE CommandPathsFrom(pending, k, i + 1)

\* JSON.stringify({ pending: [], processed: commands.pending })
DrainedQueue(pending) == [exists |-> TRUE, pending |-> <<>>, processed |-> pending]

IdlePoll == [pc |-> "idle", pending |-> <<>>, k |-> 0, i |-> 0]

\* what checkCommandQueue hands back: the commands it found, how many of them it
\* executed and whether it wrote the drained queue
PollReturned(pending, count, drained) ==
    Returned("checkCommandQueue", pending, [executed |-> count, drained |-> drained], <<>>)

\* the timestamps of the commands from..to of pending
Timestamps(pending, from, to) == [n \in 1..(to - from + 1) |-> pending[from + n - 1].timestamp]

\* go on from command  from  to the next await of the poll, or to its end in the
\* catch; the commands before the one the poll stops in have been executed
PollRun(pending, from, step) ==
    /\ executed' = executed \o Timestamps(pending, from, step.k - 1)
    /\ IF step.kind = "throw"
       THEN /\ poll' = IdlePoll
            /\ ret' = PollReturned(pending, step.k - 1, FALSE)
       ELSE /\ poll' = [pc |-> step.kind, pending |-> pending, k |-> step.k, i |-> step.i]
            /\ ret' = NoReturn

\* the call: suspend at the read of the document
CheckCommandQueueCall ==
    /\ poll.pc = "idle"
    /\ Len(executed) < MaxExecuted
    /\ poll' = [IdlePoll EXCEPT !.pc = "read"]
    /\ ret' = NoReturn
    /\ UNCHANGED << now, cache, reads, del, batch, cc, ca, dirty, daemonVars, scanVars,
                    utilVars, overlapVars, queue, sender, executed >>

\* the read ends: no document, a failed read, nothing pending, or the loop starts
CheckCommandQueueRead ==
    \E o \in FileOutcomes :
        /\ poll.pc = "read"
        /\ IF ~queue.exists \/ o = "failed" \/ queue.pending = <<>>
           THEN /\ poll' = IdlePoll
                /\ ret' = PollReturned(<<>>, 0, FALSE)
                /\ UNCHANGED executed
           ELSE PollRun(queue.pending, 1, CommandsFrom(queue.pending, 1))
        /\ UNCHANGED << now, cache, reads, del, batch, cc, ca, dirty, daemonVars, scanVars,
                        utilVars, overlapVars, queue, sender >>

\* the rm the current command awaits ends
CheckCommandQueueRm ==
    \E o \in DaemonRmOutcomes :
        /\ poll.pc = "rm"
        /\ IF o.ok
           THEN PollRun(poll.pending, poll.k, AfterCommandRm(poll.pending, poll.k, poll.i))
           ELSE /\ poll' = IdlePoll
                /\ ret' = PollReturned(poll.pending, poll.k - 1, FALSE)
                /\ UNCHANGED executed
        /\ UNCHANGED << now, cache, reads, del, batch, cc, ca, dirty, daemonVars, scanVars,
                        utilVars, overlapVars, queue, sender >>

\* the write of the drained queue ends
CheckCommandQueueWrite ==
    \E o \in FileOutcomes :
        /\ poll.pc = "write"
        /\ poll' = IdlePoll
        /\ IF o = "ok"
           THEN /\ queue' = DrainedQueue(poll.pending)
                /\ ret' = PollReturned(poll.pending, Len(poll.pending), TRUE)
           ELSE /\ ret' = PollReturned(poll.pending, Len(poll.pending), FALSE)
                /\ UNCHANGED queue
        /\ UNCHANGED << now, cache, reads, del, batch, cc, ca, dirty, daemonVars, scanVars,
                        utilVars, overlapVars, sender, executed >>

\* ------------------------------------------------------------------
\* Specifications
\* ------------------------------------------------------------------
Init ==
    /\ now = StartTime
    /\ cache = [disk |-> NoSnapshot, diskTimestamp |-> 0]
    /\ reads = <<>>
    /\ del = IdleDel
    /\ batch = IdleBatch
    /\ cc = IdleCc
    /\ ca = IdleCa
    /\ ret = NoReturn
    /\ dirty = FALSE
    /\ daemon = IdleDaemon
    /\ scan = IdleScan
    /\ queue = NoQueue
    /\ poll = IdlePoll
    /\ sender = IdleSender
    /\ util = IdleUtil
    /\ scans = IdleScans
    /\ executed = <<>>

\* lists the callers of the cache specification send: made of one path the handler
\* deletes and one it skips
CachePathLists == SeqsUpTo({ 1, 2 }, MaxBatch)

\* The main process with its clock: the disk-stats cache and every handler that
\* writes it
Next ==
    \/ GetDiskStatsCached
    \/ GetDiskStatsProbe
    \/ GetDiskStatsResume
    \/ DeleteNodemoduleCall(PathIds)
    \/ DeleteNodemoduleResume
    \/ DeleteOldNodemodulesNotArray
    \/ DeleteOldNodemodulesCall(CachePathLists)
    \/ DeleteOldNodemodulesResume
    \/ CleanupCacheCall
    \/ CleanupCacheResume
    \/ CleanupAllCall
    \/ CleanupAllResume
    \/ Tick

Spec == Init /\ [][Next]_vars

\* delete-old-nodemodules alone, with short lists of any values and long lists of
\* deletable paths
NextBatch ==
    \/ DeleteOldNodemodulesNotArray
    \/ DeleteOldNodemodulesCall(PathLists \cup ValidPathLists)
    \/ DeleteOldNodemodulesResume

SpecBatch == Init /\ [][NextBatch]_vars

\* The two batch operations: delete-old-nodemodules in the main process and the
\* queued cleanup command in the daemon
NextBatchOps ==
    \/ DeleteOldNodemodulesNotArray
    \/ DeleteOldNodemodulesCall(PathLists)
    \/ DeleteOldNodemodulesResume
    \/ ExecuteCommandCall
    \/ ExecuteCommandResume

SpecBatchOps == Init /\ [][NextBatchOps]_vars

\* A scan of the main process, run when the clock shows ScanStartDays days
InitScan ==
    /\ now = ScanStartDays * DayMs
    /\ cache = [disk |-> NoSnapshot, diskTimestamp |-> 0]
    /\ reads = <<>>
    /\ del = IdleDel
    /\ batch = IdleBatch
    /\ cc = IdleCc
    /\ ca = IdleCa
    /\ ret = NoReturn
    /\ dirty = FALSE
    /\ daemon = IdleDaemon
    /\ scan = IdleScan
    /\ queue = NoQueue
    /\ poll = IdlePoll
    /\ sender = IdleSender
    /\ util = IdleUtil
    /\ scans = IdleScans
    /\ executed = <<>>

NextScan ==
    \/ ScanNodemodulesCall
    \/ ScanFindResume
    \/ ScanProbeResume

SpecScan == InitScan /\ [][NextScan]_vars

\* The command queue between the mobile client and the daemon
NextQueue ==
    \/ SendCleanupCommandCall
    \/ SendCleanupCommandWrite
    \/ CheckCommandQueueCall
    \/ CheckCommandQueueRead
    \/ CheckCommandQueueRm
    \/ CheckCommandQueueWrite

SpecQueue == Init /\ [][NextQueue]_vars

\* the helpers of utils.js, applied to every input
InitUtils ==
    /\ now = StartTime
    /\ cache = [disk |-> NoSnapshot, diskTimestamp |-> 0]
    /\ reads = <<>>
    /\ del = IdleDel
    /\ batch = IdleBatch
    /\ cc = IdleCc
    /\ ca = IdleCa
    /\ ret = NoReturn
    /\ dirty = FALSE
    /\ daemon = IdleDaemon
    /\ scan = IdleScan
    /\ queue = NoQueue
    /\ poll = IdlePoll
    /\ sender = IdleSender
    /\ scans = IdleScans
    /\ executed = <<>>
    /\ \E v \in UtilInputs : \E seen \in SeenSets :
          util = [origin |-> v, seen |-> seen, val |-> v, ops |-> <<>>]

NextUtils ==
    \/ ParseSizeToBytesCall
    \/ FormatBytesCall
    \/ ExtractProjectNameCall
    \/ ShouldExcludePathCall

SpecUtils == InitUtils /\ [][NextUtils]_vars

\* invocations of scan-nodemodules that overlap, on one filesystem
InitScans ==
    /\ now = ScanStartDays * DayMs
    /\ cache = [disk |-> NoSnapshot, diskTimestamp |-> 0]
    /\ reads = <<>>
    /\ del = IdleDel
    /\ batch = IdleBatch
    /\ cc = IdleCc
    /\ ca = IdleCa
    /\ ret = NoReturn
    /\ dirty = FALSE
    /\ daemon = IdleDaemon
    /\ scan = IdleScan
    /\ queue = NoQueue
    /\ poll = IdlePoll
    /\ sender = IdleSender
    /\ util = IdleUtil
    /\ \E fs \in FsPool : scans = [IdleScans EXCEPT !.fs = fs]
    /\ executed = <<>>

NextScans ==
    \/ OverlapScanCall
    \/ OverlapFindResume
    \/ OverlapProbeResume

SpecScans == InitScans /\ [][NextScans]_vars

\* ------------------------------------------------------------------
\* Properties
\* ------------------------------------------------------------------
\* the path value numbered p is a string that contains 'node_modules'
HasMarker(p) == PathOf(p).t = "string" /\ Includes(PathOf(p).s, NodeModules)

\* the path value numbered p is a string, or no value at all (null, undefined)
IsPathOrNothing(p) == PathOf(p).t \in { "string", "null" }

\* the last step was delete-old-nodemodules returning its counts
BatchReturned == ret.op = "delete-old-nodemodules" /\ "deleted" \in DOMAIN ret.val

\* positions of the probes in a log, and of those that succeeded or failed
ProbedAt(log) == { log[k].at : k \in 1..Len(log) }
OkAt(log) == { log[k].at : k \in { j \in 1..Len(log) : log[j].ok } }
FailedAt(log) == { log[k].at : k \in { j \in 1..Len(log) : ~log[j].ok } }
MarkedAt(items) == { k \in 1..Len(items) : HasMarker(items[k]) }

\* C1: delete-nodemodule called with a path (or with nothing) that does not contain
\* 'node_modules' returns the error 'Invalid path' and issues no rm; called with a
\* path that contains it, it issues exactly one rm, for that path.
C1_DeleteOneChecksMarker ==
    /\ del.pc = "rm" => HasMarker(del.path)
    /\ (ret.op = "delete-nodemodule" /\ IsPathOrNothing(ret.arg)) =>
          IF HasMarker(ret.arg)
          THEN /\ Len(ret.probes) = 1
               /\ ret.probes[1].p = ret.arg
          ELSE /\ ret.probes = <<>>
               /\ ret.val = [success |-> FALSE, error |-> "Invalid path"]

\* delete-nodemodule has returned after its one rm of /a/node_modules
C1_Witness ==
    /\ ret.op = "delete-nodemodule"
    /\ ret.arg = 1
    /\ Len(ret.probes) = 1
    /\ ret.probes[1].ok

\* C2: in every state, an rm issued by a batch operation (delete-old-nodemodules in
\* the main process, the 'cleanup-nodemodules' command in the daemon) for a path of
\* the caller's list is for a path that contains 'node_modules'.
C2_BatchDeletesOnlyMarked ==
    /\ batch.pc = "rm" => HasMarker(batch.items[batch.i])
    /\ (daemon.pc = "rm" /\ daemon.type = "cleanup-nodemodules") =>
          HasMarker(daemon.items[daemon.i])
    /\ ret.op = "delete-old-nodemodules" =>
          \A k \in 1..Len(ret.probes) : HasMarker(ret.probes[k].p)

\* both batch operations are deleting the second path of a list whose first path
\* they skipped
C2_Witness ==
    /\ batch.pc = "rm" /\ batch.i = 2 /\ ~HasMarker(batch.items[1])
    /\ daemon.pc = "rm" /\ daemon.type = "cleanup-nodemodules" /\ daemon.i = 2

\* C3 as stated: when delete-old-nodemodules returns its counts, deleted + failed is
\* the number of paths of the input list.
C3_EveryPathCounted ==
    BatchReturned => ret.val.deleted + ret.val.failed = Len(ret.arg)

\* C3 as amended: when delete-old-nodemodules returns its counts, every path of the
\* list that contains 'node_modules' was counted once, as deleted when its rm
\* succeeded and as failed when it did not, and the other paths were counted in
\* neither: deleted + failed is the number of paths that contain 'node_modules'.
C3_MarkedPathsCounted ==
    BatchReturned =>
        /\ ret.val.deleted + ret.val.failed = Cardinality(MarkedAt(ret.arg))
        /\ ret.val.deleted = Cardinality(OkAt(ret.probes))
        /\ ret.val.failed = Cardinality(FailedAt(ret.probes))

\* a list of a skipped path and a deleted one has returned with deleted = 1
C3_Witness ==
    /\ BatchReturned
    /\ Len(ret.arg) = 2
    /\ ~HasMarker(ret.arg[1])
    /\ ret.val.deleted = 1
    /\ ret.val.failed = 0

\* C4: delete-old-nodemodules never stops at a failed rm: when it ends, by returning
\* its counts or by an exception of a later path check, every path that contains
\* 'node_modules' up to there got its own rm, one after the other in list order,
\* and the counts are those of the succeeded and of the failed rm.
C4_NoEarlyAbort ==
    ret.op = "delete-old-nodemodules" =>
        LET upTo == IF "at" \in DOMAIN ret.val THEN ret.val.at - 1 ELSE Len(ret.arg)
        IN /\ ProbedAt(ret.probes) = { k \in MarkedAt(ret.arg) : k <= upTo }
           /\ \A j, k \in 1..Len(ret.probes) : j < k => ret.probes[j].at < ret.probes[k].at
           /\ BatchReturned =>
                 /\ ret.val.deleted = Cardinality(OkAt(ret.probes))
                 /\ ret.val.failed = Cardinality(FailedAt(ret.probes))

\* five deletable paths, the rm of the second and of the fourth failed: the call
\* returned deleted = 3 and failed = 2, and paths 1, 3 and 5 are deleted
C4_Witness ==
    /\ BatchReturned
    /\ Len(ret.arg) = 5
    /\ FailedAt(ret.probes) = { 2, 4 }
    /\ OkAt(ret.probes) = { 1, 3, 5 }
    /\ ret.val = [success |-> TRUE, deleted |-> 3, failed |-> 2]

\* the step is a getDiskStats call that returns the stored snapshot without a probe
CachedReadStep == ret'.op = "getDiskStats" /\ ret'.arg = "cached"

\* the step is a getDiskStats call that issues a probe
ProbingReadStep == Len(reads') > Len(reads)

\* C5 as stated: once a successful deletion has returned, the next getDiskStats call
\* that starts issues a fresh probe; it does not return the stored snapshot.
C5_ReadAfterDeletionProbes ==
    [][dirty => ~CachedReadStep]_vars

\* C6: while a snapshot is stored and younger than DISK_TTL, a getDiskStats call
\* issues no probe and returns the stored snapshot.
C6_FreshReadIssuesNoProbe ==
    [][(cache.disk # NoSnapshot /\ now - cache.diskTimestamp < DISK_TTL) =>
          /\ ~ProbingReadStep
          /\ CachedReadStep => (ret'.val = cache.disk /\ ret'.probes = <<>>)]_vars

\* a second read, later than the one that stored the snapshot and within the TTL,
\* has returned the stored snapshot
C6_Witness ==
    /\ ret.op = "getDiskStats"
    /\ ret.arg = "cached"
    /\ ret.probes = <<>>
    /\ cache.diskTimestamp > 0
    /\ now > cache.diskTimestamp

\* C7: while the timestamp is 0 (the cache is invalidated), no getDiskStats call
\* returns the stored snapshot, however recent it is: the call issues a probe.
C7_InvalidatedReadProbes ==
    [][cache.diskTimestamp = 0 => ~CachedReadStep]_vars

\* a snapshot was stored in this very millisecond and then invalidated, and the
\* read that follows is suspended at its probe
C7_Witness ==
    /\ cache.disk # NoSnapshot
    /\ cache.diskTimestamp = 0
    /\ now = StartTime
    /\ dirty = FALSE
    /\ Len(reads) = 1

\* C8 as stated: a getDiskStats call whose probe produced no measurement returns the
\* stored snapshot if there is one and the all-zero default only if there is none.
C8_NoMeasurementServesSnapshot ==
    (ret.op = "getDiskStats" /\ ret.arg \in { "rejected", "nodisk" }) =>
        ret.val = IF cache.disk # NoSnapshot THEN cache.disk ELSE ZeroSnapshot

\* the step ends the rm of delete-nodemodule, or of cleanup-cache
SingleDeleteEnds ==
    \/ del.pc = "rm" /\ del'.pc = "idle"
    \/ cc.pc = "rm" /\ cc'.pc = "idle"

\* C9: delete-nodemodule and cleanup-cache set the timestamp to 0 exactly when their
\* rm succeeded; when it failed they return the error with the message of the
\* failure and leave snapshot and timestamp as they were.
C9_InvalidateIffDeleted ==
    [][SingleDeleteEnds =>
          IF ret'.probes[1].ok
          THEN /\ cache' = [disk |-> cache.disk, diskTimestamp |-> 0]
               /\ ret'.val = [success |-> TRUE]
          ELSE /\ cache' = cache
               /\ ret'.val = [success |-> FALSE, error |-> ret'.probes[1].message]]_vars

\* delete-nodemodule has returned the error of its failed rm and the cache still
\* holds a snapshot with its timestamp
C9_Witness ==
    /\ ret.op = "delete-nodemodule"
    /\ Len(ret.probes) = 1
    /\ ~ret.probes[1].ok
    /\ ret.val.error = "timed out"
    /\ cache.disk # NoSnapshot
    /\ cache.diskTimestamp > 0

\* C10: when delete-old-nodemodules returns its counts, the timestamp of the cache
\* is 0, whatever the list was and however the deletions ended.
C10_BatchLeavesCacheInvalidated ==
    BatchReturned => cache.diskTimestamp = 0

\* a call that deleted nothing has returned, and the snapshot stored before it is
\* invalidated
C10_Witness ==
    /\ BatchReturned
    /\ ret.val.deleted = 0
    /\ cache.disk # NoSnapshot
    /\ cache.diskTimestamp = 0

\* the last step was scan-nodemodules returning its result
ScanReturned == ret.op = "scan-nodemodules"

\* the jobs of the returned scan whose path has an entry in the result
EntriesOf(p) == { k \in 1..Len(ret.val.nodeModules) : ret.val.nodeModules[k].path = p }

\* C11 as stated: the paths the dedup pass has kept are the minimal non-nested set,
\* in whatever order the candidates were processed: no kept path lies inside
\* another kept path.
C11_DedupYieldsMinimalSet ==
    \A j, k \in 1..Len(scan.seenPaths) : ~InsideSeen(scan.seenPaths[j], scan.seenPaths[k])

C15_NoTimestampNotOld ==
    ScanReturned =>
        \A k \in 1..Len(ret.val.nodeModules) :
            ret.val.nodeModules[k].lastAccessTimestamp = 0 =>
                /\ ret.val.nodeModules[k].daysAgo = 0
                /\ ~ret.val.nodeModules[k].isOld

\* C16 as stated: no call of a handler ends in an exception: whatever it is given,
\* it returns a value.
C16_HandlersNeverThrow ==
    ret.op # "none" => "threw" \notin DOMAIN ret.val

\* C17 as stated: cleanup-cache runs its rm only for the five known actions; for any
\* other action it returns the error 'Unknown action' and issues no rm.
C17_UnknownActionRejected ==
    /\ cc.pc = "rm" => cc.action \in CleanupKeys
    /\ (ret.op = "cleanup-cache" /\ ret.arg \notin CleanupKeys) =>
          /\ ret.val = [success |-> FALSE, error |-> "Unknown action"]
          /\ ret.probes = <<>>

\* C18 as stated: a poll that found pending commands has executed every one of them
\* and has written the drained queue: nothing pending, the commands it found
\* processed.
C18_PollDrainsPending ==
    (ret.op = "checkCommandQueue" /\ ret.arg # <<>>) =>
        /\ ret.val.executed = Len(ret.arg)
        /\ ret.val.drained
        /\ queue = DrainedQueue(ret.arg)

\* C19: while delete-old-nodemodules awaits the rm of one path, the rm of every
\* earlier path of the list that contains 'node_modules' has ended, each once and in
\* list order, and no rm of a later path has been issued.
C19_DeletionsSequential ==
    batch.pc = "rm" =>
        /\ batch.i \in MarkedAt(batch.items)
        /\ ProbedAt(batch.log) = { k \in MarkedAt(batch.items) : k < batch.i }
        /\ \A j, k \in 1..Len(batch.log) : j < k => batch.log[j].at < batch.log[k].at

\* the rm of the third path is awaited and the rm of the first two have ended
C19_Witness ==
    /\ batch.pc = "rm"
    /\ batch.i = 3
    /\ Len(batch.log) = 2
    /\ ~batch.log[1].ok

\* the paths cataloged after a step of the scan
CatalogAfter == IF scan'.pc = "idle" THEN ret'.arg ELSE scan'.seenPaths

\* C20: the end of the find of a root never ends the scan with an error and never
\* removes a cataloged path; when the find failed, the catalog stays as it was and
\* the scan goes on with the next root.
C20_FailedRootIsSkipped ==
    [][scan.pc = "find" /\ scan' # scan =>
          /\ SubSeq(CatalogAfter, 1, Len(scan.seenPaths)) = scan.seenPaths
          /\ scan'.pc = "idle" => ret'.val.success
          /\ scan'.find = "rejected" =>
                /\ scan'.seenPaths = scan.seenPaths
                /\ scan'.pc = "find" => scan'.root = scan.root + 1]_vars

\* the find of the second root failed: the path found under the first root is still
\* cataloged and the scan awaits the find of the third root
C20_Witness ==
    /\ scan.pc = "find"
    /\ scan.root = 3
    /\ scan.find = "rejected"
    /\ scan.seenPaths # <<>>

\* ------------------------------------------------------------------
\* The helpers of utils.js
\* ------------------------------------------------------------------
\* 1.5 * 1024^3 bytes, and the texts "1.5GB" and "1.5G"
OneAndAHalfGiB == Number(1024 ^ 3 + (1024 ^ 3) \div 2, 0, 1)
Text15GB == Str(<< "1", ".", "5", "G", "B" >>)
Text15G == Str(<< "1", ".", "5", "G" >>)

\* C21: formatBytes(1.5 * 1024^3) is "1.5GB", parseSizeToBytes of that text is the
\* byte count formatBytes was given, and formatBytes(parseSizeToBytes("1.5G")) is
\* "1.5GB"
C21_SizeRoundTrip ==
    /\ (util.origin = OneAndAHalfGiB /\ util.ops = << "formatBytes" >>)
           => util.val = Text15GB
    /\ (util.origin = OneAndAHalfGiB /\ util.ops = << "formatBytes", "parseSizeToBytes" >>)
           => util.val = util.origin
    /\ (util.origin = Text15G /\ util.ops = << "parseSizeToBytes", "formatBytes" >>)
           => util.val = Text15GB

C21_Witness ==
    /\ util.origin = OneAndAHalfGiB
    /\ util.ops = << "formatBytes", "parseSizeToBytes" >>
    /\ util.val = OneAndAHalfGiB

\* ------------------------------------------------------------------
\* The entries of a scan result
\* ------------------------------------------------------------------
\* C22: the label of every entry of a scan result is what extractProjectName gives
\* for its path, the last segment of the parent path or "Unknown", and is not empty
C22_LabelNeverEmpty ==
    ScanReturned =>
        \A k \in 1..Len(ret.val.nodeModules) :
            LET e == ret.val.nodeModules[k]
            IN /\ e.projectName = ExtractProjectName(Str(ScanPathPool[e.path]))
               /\ e.projectName # <<>>

\* C23: the paths of the entries of a scan result are pairwise distinct, also when
\* the finds of several roots print the same folder; duplicates are excluded when
\* the catalog is built, so the catalog holds no path twice either
C23_EntryPathsDistinct ==
    /\ \A i, j \in 1..Len(scan.seenPaths) :
           i # j => scan.seenPaths[i] # scan.seenPaths[j]
    /\ ScanReturned =>
           \A i, j \in 1..Len(ret.val.nodeModules) :
               i # j => ret.val.nodeModules[i].path # ret.val.nodeModules[j].path

C23_Witness ==
    /\ ScanReturned
    /\ ret.val.success
    /\ Len(ret.val.nodeModules) = 2

\* a path of a folder next to /a/node_modules whose name starts with its name
SiblingPath == Slash \o <<"a">> \o Slash \o NodeModules \o <<"2">>

\* path is seen itself, or lies below it: seen, a slash, and more
IsAtOrBelow(path, seen) ==
    \/ path = seen
    \/ /\ Len(path) > Len(seen)
       /\ SubSeq(path, 1, Len(seen)) = seen
       /\ path[Len(seen) + 1] = "/"

\* C24: shouldExcludePath(path, seen) is true exactly when path is empty or no
\* string, or is a member of seen, or starts with s + '/' for an s of seen; a sibling
\* that shares a prefix with a seen path without the '/' is not excluded
C24_ExcludesSeenAndNested ==
    util.ops = << "shouldExcludePath" >> =>
        /\ util.val.t = "boolean"
        /\ util.val.b <=> \/ util.origin.t # "string"
                          \/ util.origin.s = <<>>
                          \/ \E s \in util.seen : IsAtOrBelow(util.origin.s, s)
        /\ (util.origin = Str(SiblingPath) /\ SiblingPath \notin util.seen) => ~util.val.b

C24_Witness ==
    /\ util.ops = << "shouldExcludePath" >>
    /\ util.origin = Str(SiblingPath)
    /\ \E s \in util.seen : StartsWith(SiblingPath, s)
    /\ util.val = Boolean(FALSE)

\* ------------------------------------------------------------------
\* Overlapping scans
\* ------------------------------------------------------------------
\* What one invocation running alone on filesystem fs has cataloged after the finds
\* of its first n roots, and what it returns at time t
RECURSIVE CatalogAlone(_, _)
CatalogAlone(fs, n) ==
    IF n = 0 THEN <<>> ELSE SeenAfterFind(CatalogAlone(fs, n - 1), fs.find[n])

JobAlone(fs, p, t) ==
    LET afterDu == JobAfterDu(NewJob(p), fs.du[p])
    IN IF afterDu.pc = "done" THEN afterDu ELSE JobAfterStat(afterDu, fs.stat[p], t)

ResultAlone(fs, t) ==
    LET catalog == CatalogAlone(fs, SearchPaths)
    IN ScanResult([k \in 1..Len(catalog) |-> JobAlone(fs, catalog[k], t)])

\* C25: invocations of the scan that overlap do not interfere: each has cataloged
\* what it would have cataloged alone after the finds it has completed, and each
\* returns the result it would return alone on the same filesystem
C25_OverlappingScansIndependent ==
    /\ \A i \in 1..MaxScans :
           /\ scans.run[i].pc = "find" =>
                  scans.run[i].seenPaths = CatalogAlone(scans.fs, scans.run[i].root - 1)
           /\ scans.run[i].pc = "probe" =>
                  scans.run[i].seenPaths = CatalogAlone(scans.fs, SearchPaths)
    /\ (ScanReturned /\ scans.fs # NoFs) => ret.val = ResultAlone(scans.fs, now)

C25_Witness ==
    /\ ScanReturned
    /\ ret.val.success
    /\ Len(ret.val.nodeModules) = 2
    /\ \E i \in 1..MaxScans :
          /\ scans.run[i].pc = "find"
          /\ scans.run[i].root > 1
          /\ Len(scans.run[i].seenPaths) = 1

\* the sum of the sizeBytes of the entries of the returned scan
RECURSIVE SumOfSizes(_)
SumOfSizes(n) ==
    IF n = 0 THEN 0 ELSE SumOfSizes(n - 1) + ret.val.nodeModules[n].sizeBytes

StaleEntries == { k \in 1..Len(ret.val.nodeModules) : ret.val.nodeModules[k].daysAgo > 14 }

\* C26 as stated: in a successful scan result count is the number of entries, the
\* total is the sum of the sizeBytes of the entries, and the stale count is the
\* number of entries that are stale
C26_TotalIsSum ==
    (ScanReturned /\ ret.val.success) =>
        /\ ret.val.count = Len(ret.val.nodeModules)
        /\ ParseSizeToBytes(Str(ret.val.total))
               = Number(SumOfSizes(Len(ret.val.nodeModules)), 0, 1)
        /\ ret.val.oldCount = Cardinality(StaleEntries)

\* C26 as the handler does it: count is the number of entries, the stale count the
\* number of stale entries, and total is the text formatBytes makes of the sum of
\* the sizeBytes, rounded to the unit it shows
C26_TotalIsFormattedSum ==
    (ScanReturned /\ ret.val.success) =>
        /\ ret.val.count = Len(ret.val.nodeModules)
        /\ ret.val.total = FormatBytes(Number(SumOfSizes(Len(ret.val.nodeModules)), 0, 1))
        /\ ret.val.oldCount = Cardinality(StaleEntries)

\* two entries of 1100 KB: the sum is 2252800 bytes, the total "2.1MB"
C26_Witness ==
    /\ ScanReturned
    /\ ret.val.success
    /\ ret.val.count = 2
    /\ SumOfSizes(2) = 2 * 1100 * 1024
    /\ ret.val.total = << "2", ".", "1", "M", "B" >>
    /\ ret.val.oldCount = 1

\* ------------------------------------------------------------------
\* The snapshot of the disk-stats cache
\* ------------------------------------------------------------------
\* C27: invalidation changes only the timestamp of the cache.  A step changes the
\* stored snapshot only if it is a getDiskStats call storing the measurement of its
\* successful probe, and once a snapshot is stored the slot never holds none again;
\* the deletion and cleanup handlers leave the snapshot as it is
C27_OnlyProbeWritesSnapshot ==
    [][ /\ cache'.disk # cache.disk =>
              /\ ret'.op = "getDiskStats"
              /\ ret'.arg = "stored"
              /\ cache'.disk = ret'.val
              /\ cache'.diskTimestamp > 0
        /\ cache.disk # NoSnapshot => cache'.disk # NoSnapshot
        /\ (del' # del \/ batch' # batch \/ cc' # cc \/ ca' # ca) => cache'.disk = cache.disk
      ]_vars

C27_Witness ==
    /\ ret.op = "cleanup-all"
    /\ cache.disk # NoSnapshot
    /\ cache.diskTimestamp = 0

\* ------------------------------------------------------------------
\* The command queue under concurrency and failure
\* ------------------------------------------------------------------
\* the timestamps of the commands pending in document q
PendingIn(q) == { q.pending[k].timestamp : k \in 1..Len(q.pending) }

\* C28 as stated: however sendCleanupCommand and checkCommandQueue interleave, a step
\* that removes a command from pending happens only after the daemon has executed
\* the command: no enqueued command is dropped unexecuted.
C28_NoCommandDroppedUnexecuted ==
    [][ \A t \in PendingIn(queue) \ PendingIn(queue') :
            \E n \in 1..Len(executed') : executed'[n] = t ]_vars

\* C29 as stated: the daemon executes each command at most once across all polls,
\* also when the execution of a later command or the write of the drained queue
\* fails.
C29_ExecutedAtMostOnce ==
    \A i, j \in 1..Len(executed) : i # j => executed[i] # executed[j]

\* ------------------------------------------------------------------
\* The paths the delete handlers accept
\* ------------------------------------------------------------------
\* C30 as stated: the delete handlers accept a path only if isValidNodeModulesPath
\* accepts it: an rm that delete-nodemodule or delete-old-nodemodules awaits is for a
\* string that contains 'node_modules' and does not contain '..'.
C30_DeletesOnlyValidPaths ==
    /\ del.pc = "rm" => IsValidNodeModulesPath(PathOf(del.path))
    /\ batch.pc = "rm" => IsValidNodeModulesPath(PathOf(batch.items[batch.i]))

====
